---- MODULE Spec2Model ----
(***************************************************************************)
(* Model of the interactive session engine of postgres-cli (package        *)
(* postgres): the session loop CLI.Start, the statement accumulator        *)
(* CLI.readMultiLine, the meta-command dispatcher CLI.handlePsqlCommand,   *)
(* the statement router CLI.executeSQL and the database switch             *)
(* CLI.connectToDatabase.                                                  *)
(*                                                                         *)
(* A Go string is a sequence of one-character strings; an output line is a *)
(* record [k |-> kind, v |-> text].                                        *)
(***************************************************************************)
EXTENDS Integers, Sequences, FiniteSets, TLC

(***************************************************************************)
(* Package strings                                                         *)
(***************************************************************************)
LowerChars == <<"a","b","c","d","e","f","g","h","i","j","k","l","m",
                "n","o","p","q","r","s","t","u","v","w","x","y","z">>

UpperChars == <<"A","B","C","D","E","F","G","H","I","J","K","L","M",
                "N","O","P","Q","R","S","T","U","V","W","X","Y","Z">>

\* unicode.ToUpper and unicode.ToLower on the ASCII letters.
UpperOf == [c \in {LowerChars[i] : i \in 1..26} |->
               UpperChars[CHOOSE i \in 1..26 : LowerChars[i] = c]]

LowerOf == [c \in {UpperChars[i] : i \in 1..26} |->
               LowerChars[CHOOSE i \in 1..26 : UpperChars[i] = c]]

ToUpperChar(c) == IF c \in DOMAIN UpperOf THEN UpperOf[c] ELSE c

ToLowerChar(c) == IF c \in DOMAIN LowerOf THEN LowerOf[c] ELSE c

ToUpper(s) == [i \in 1..Len(s) |-> ToUpperChar(s[i])]

ToLower(s) == [i \in 1..Len(s) |-> ToLowerChar(s[i])]

IsSpace(c) == c \in {" ", "\t"}

RECURSIVE TrimLeft(_)
TrimLeft(s) ==
    IF s # <<>> /\ IsSpace(Head(s)) THEN TrimLeft(Tail(s)) ELSE s

RECURSIVE TrimRight(_)
TrimRight(s) ==
    IF s # <<>> /\ IsSpace(s[Len(s)])
    THEN TrimRight(SubSeq(s, 1, Len(s) - 1))
    ELSE s

TrimSpace(s) == TrimRight(TrimLeft(s))

HasPrefix(s, p) == Len(s) >= Len(p) /\ SubSeq(s, 1, Len(p)) = p

HasSuffix(s, p) ==
    Len(s) >= Len(p) /\ SubSeq(s, Len(s) - Len(p) + 1, Len(s)) = p

TrimSuffix(s, p) ==
    IF HasSuffix(s, p) THEN SubSeq(s, 1, Len(s) - Len(p)) ELSE s

RECURSIVE Join(_, _)
Join(ls, sep) ==
    IF ls = <<>> THEN <<>>
    ELSE IF Len(ls) = 1 THEN ls[1]
    ELSE ls[1] \o sep \o Join(Tail(ls), sep)

\* strings.Fields: the maximal runs of non-space characters, in order.
RECURSIVE FieldsFrom(_, _, _)
FieldsFrom(s, cur, acc) ==
    IF s = <<>>
    THEN IF cur = <<>> THEN acc ELSE Append(acc, cur)
    ELSE IF IsSpace(Head(s))
         THEN FieldsFrom(Tail(s), <<>>, IF cur = <<>> THEN acc ELSE Append(acc, cur))
         ELSE FieldsFrom(Tail(s), Append(cur, Head(s)), acc)

Fields(s) == FieldsFrom(s, <<>>, <<>>)

(***************************************************************************)
(* String literals of the source                                           *)
(***************************************************************************)
sBEGIN == <<"B","E","G","I","N">>

sSTART_TRANSACTION == <<"S","T","A","R","T"," ","T","R","A","N","S","A","C","T","I","O","N">>

sCOMMIT == <<"C","O","M","M","I","T">>

sROLLBACK == <<"R","O","L","L","B","A","C","K">>

sSELECT == <<"S","E","L","E","C","T">>

sSHOW == <<"S","H","O","W">>

sWITH == <<"W","I","T","H">>

sTABLE == <<"T","A","B","L","E">>

sVALUES == <<"V","A","L","U","E","S">>

sEXPLAIN == <<"E","X","P","L","A","I","N">>

sANALYZE == <<"A","N","A","L","Y","Z","E">>

sINSERT == <<"I","N","S","E","R","T">>

sUPDATE == <<"U","P","D","A","T","E">>

sDELETE == <<"D","E","L","E","T","E">>

sCREATE == <<"C","R","E","A","T","E">>

sDROP == <<"D","R","O","P">>

sALTER == <<"A","L","T","E","R">>

sExit == <<"e","x","i","t">>

sQuit == <<"q","u","i","t">>

sHelp == <<"h","e","l","p">>

sSemi == <<";">>

sNL == <<"\n">>

sBackslash == <<"\\">>

cmdQ == <<"\\","q">>

cmdHelp == <<"\\","?">>

cmdH == <<"\\","h">>

cmdHsp == <<"\\","h"," ">>

cmdL == <<"\\","l">>

cmdList == <<"\\","l","i","s","t">>

cmdCsp == <<"\\","c"," ">>

cmdConnectSp == <<"\\","c","o","n","n","e","c","t"," ">>

cmdDt == <<"\\","d","t">>

cmdDtPlus == <<"\\","d","t","+">>

cmdDn == <<"\\","d","n">>

cmdDnPlus == <<"\\","d","n","+">>

cmdDsp == <<"\\","d"," ">>

cmdDv == <<"\\","d","v">>

cmdDvPlus == <<"\\","d","v","+">>

cmdDi == <<"\\","d","i">>

cmdDiPlus == <<"\\","d","i","+">>

cmdDs == <<"\\","d","s">>

cmdDsPlus == <<"\\","d","s","+">>

cmdDf == <<"\\","d","f">>

cmdDfPlus == <<"\\","d","f","+">>

cmdDu == <<"\\","d","u">>

cmdDuPlus == <<"\\","d","u","+">>

cmdX == <<"\\","x">>

cmdTiming == <<"\\","t","i","m","i","n","g">>

cmdConninfo == <<"\\","c","o","n","n","i","n","f","o">>

cmdD == <<"\\","d">>

(***************************************************************************)
(* The SQL text of the delegated informational queries.  Each literal is   *)
(* kept up to its first select item: the router looks only at whether the  *)
(* whole text equals a transaction keyword and at its leading keyword.     *)
(***************************************************************************)
sqlListDatabases == <<"S","E","L","E","C","T"," ","d","a","t","n","a","m","e">>

sqlListTables == <<"S","E","L","E","C","T"," ","s","c","h","e","m","a","n","a","m","e",","," ","t","a","b","l","e","n","a","m","e">>

sqlListSchemas == <<"S","E","L","E","C","T"," ","n","s","p","n","a","m","e">>

sqlListViews == <<"S","E","L","E","C","T"," ","s","c","h","e","m","a","n","a","m","e",","," ","v","i","e","w","n","a","m","e">>

sqlListIndexes == <<"S","E","L","E","C","T"," ","s","c","h","e","m","a","n","a","m","e",","," ","i","n","d","e","x","n","a","m","e">>

sqlListSequences == <<"S","E","L","E","C","T"," ","s","c","h","e","m","a","n","a","m","e",","," ","s","e","q","u","e","n","c","e","n","a","m","e">>

sqlListFunctions == <<"S","E","L","E","C","T"," ","n",".","n","s","p","n","a","m","e">>

sqlListRoles == <<"S","E","L","E","C","T"," ","r","o","l","n","a","m","e">>

sqlPublicTables == <<"S","E","L","E","C","T"," ","t","a","b","l","e","n","a","m","e">>

(***************************************************************************)
(* Bounds of the model                                                     *)
(***************************************************************************)
\* Connection handles sql.Open can hand out in one run.
MaxConns == 3

\* Lines the accumulator may hold and still go on reading (session runs).
MaxLines == 1

\* Lines the accumulator may hold and still go on reading (accumulator runs).
MaxAccLines == 2

Handles == 1..MaxConns

(***************************************************************************)
(* Output lines                                                            *)
(***************************************************************************)
OutLine(kind, text) == [k |-> kind, v |-> text]

BlankLine == OutLine("blank", "")

\* "ERROR: <message>"
ErrorLine(msg) == OutLine("ERROR", msg)

\* "Time: <elapsed> ms"
TimeLine == OutLine("time", "")

IsErrorLine(l) == l.k = "ERROR"

\* A call on the backend collaborator: op on connection handle conn.
Call(op, conn, sql, ok) == [op |-> op, conn |-> conn, sql |-> sql, ok |-> ok]

(***************************************************************************)
(* State                                                                   *)
(***************************************************************************)
VARIABLES
    pc,             \* position of Start: "read" (blocked in ReadLine), "dispatch", "done"
    lines,          \* readMultiLine: the accumulation buffer
    sqlStr,         \* Start: the value readMultiLine returned last
    prompt,         \* Reader: the prompt set by SetPrompt
    database,       \* CLI.database
    db,             \* CLI.db: the handle of the active connection
    conns,          \* sql.DB handles: "none", "open" or "closed"
    inTransaction,  \* CLI.inTransaction
    expandedMode,   \* CLI.expandedMode
    timingEnabled,  \* CLI.timingEnabled
    maxRows,        \* CLI.maxRows
    eof,            \* the Line Source has reported end-of-input
    out,            \* lines written to the terminal for the last unit
    calls,          \* backend calls made for the last unit
    consumed,       \* history: lines ReadLine returned to the last readMultiLine call
    lastTx,         \* history: the last transaction keyword submitted
    everFailed,     \* history: some backend call has failed
    cols,           \* renderer: the column labels of the result
    stream,         \* renderer: the rows of the result stream, in order
    colWidths,      \* displayTable: colWidths
    allRows,        \* displayTable: allRows
    rowNum,         \* displayExpanded: rowNum
    term,           \* renderer: lines written to the terminal, as text
    rpc,            \* position of the renderer: "idle", "start", "scan", "print",
                    \* "records", "footer", "done"
    config,         \* CLI.config: the connection settings of the session
    settings,       \* sql.DB handles: the settings each was opened and sized with
    poolConns,      \* database/sql: the physical connections a pool comes to
                    \* hold in this run
    tx,             \* backend: per handle, the physical connections with an
                    \* open transaction
    served          \* backend: the physical connection that served the last
                    \* statement, 0 if the last unit sent none

sessionVars == <<pc, lines, sqlStr, prompt, database, db, conns,
                 inTransaction, expandedMode, timingEnabled, maxRows, eof, out,
                 calls, consumed, lastTx, everFailed>>

renderVars == <<cols, stream, colWidths, allRows, rowNum, term, rpc>>

backendVars == <<config, settings, poolConns, tx, served>>

vars == <<sessionVars, renderVars, backendVars>>

\* Config.Database of the example program.
ConfigDatabase == <<"t","e","s","t","d","b">>

(***************************************************************************)
(* Pure functions of the source                                            *)
(***************************************************************************)
getPrompt(dbname, inTx) ==
    IF inTx THEN dbname \o <<"*","=",">"," ">>
    ELSE dbname \o <<"=",">"," ">>

\* Variant: the continuation prompt names the configured database.
continuationPromptConfig(dbname) == ConfigDatabase \o <<"-",">"," ">>

continuationPrompt(dbname) == dbname \o <<"-",">"," ">>

queryPrefixes == <<sSELECT, sSHOW, sWITH, sTABLE, sVALUES, sEXPLAIN, sANALYZE>>

\* Variant: the keywords are matched without upper-casing the statement.
isQueryCaseSensitive(s) ==
    LET upper == TrimSpace(s)
    IN \E i \in 1..Len(queryPrefixes) : HasPrefix(upper, queryPrefixes[i])

isQuery(s) ==
    LET upper == ToUpper(TrimSpace(s))
    IN \E i \in 1..Len(queryPrefixes) : HasPrefix(upper, queryPrefixes[i])

commandTag(s) ==
    LET upperSQL == ToUpper(TrimSpace(s))
    IN IF HasPrefix(upperSQL, sINSERT) THEN "INSERT"
       ELSE IF HasPrefix(upperSQL, sUPDATE) THEN "UPDATE"
       ELSE IF HasPrefix(upperSQL, sDELETE) THEN "DELETE"
       ELSE IF HasPrefix(upperSQL, sCREATE) THEN "CREATE"
       ELSE IF HasPrefix(upperSQL, sDROP) THEN "DROP"
       ELSE IF HasPrefix(upperSQL, sALTER) THEN "ALTER"
       ELSE "COMMAND"

(***************************************************************************)
(* Statement router                                                        *)
(***************************************************************************)
\* What one handler did: the session fields after it, the lines it wrote and
\* the backend calls it made.
NoEffect ==
    [inTransaction |-> inTransaction, expandedMode |-> expandedMode,
     timingEnabled |-> timingEnabled, db |-> db, database |-> database,
     conns |-> conns, settings |-> settings, out |-> <<>>, calls |-> <<>>,
     recognized |-> FALSE]

timingLine == IF timingEnabled THEN <<TimeLine>> ELSE <<>>

printError == <<ErrorLine("<err>"), BlankLine>>

displayTable ==
    <<OutLine("table", "<header, separator, rows, footer>")>>
        \o timingLine \o <<BlankLine>>

\* Variant: the expanded renderer leaves the elapsed time out.
displayExpandedNoTiming ==
    <<OutLine("expanded", "<records>")>> \o <<BlankLine>>

displayExpanded ==
    <<OutLine("expanded", "<records>")>> \o timingLine \o <<BlankLine>>

\* Variant: a failed query is taken for a lost connection, which is closed.
executeQueryClosesOnError(s, ok) ==
    [NoEffect EXCEPT
        !.conns = IF ok THEN conns ELSE [conns EXCEPT ![db] = "closed"],
        !.calls = <<Call("Query", db, s, ok)>>,
        !.out = IF ~ok THEN printError
                ELSE IF expandedMode THEN displayExpanded
                ELSE displayTable]

executeQuery(s, ok) ==
    [NoEffect EXCEPT
        !.calls = <<Call("Query", db, s, ok)>>,
        !.out = IF ~ok THEN printError
                ELSE IF expandedMode THEN displayExpanded
                ELSE displayTable]

executeCommand(s, ok) ==
    [NoEffect EXCEPT
        !.calls = <<Call("Exec", db, s, ok)>>,
        !.out = IF ~ok THEN printError
                ELSE <<OutLine("tag", commandTag(s))>> \o timingLine
                         \o <<BlankLine>>]

\* Variant: the flag is raised by BEGIN and never lowered again.
transactionCommandNeverCleared(flag, keyword, tag, ok) ==
    [NoEffect EXCEPT
        !.inTransaction = (inTransaction \/ flag),
        !.calls = <<Call("Exec", db, keyword, ok)>>,
        !.out = IF ~ok THEN <<ErrorLine("<err>")>>
                ELSE <<OutLine("ack", tag)>> \o timingLine]

\* One of the three transaction blocks of executeSQL: the flag is assigned,
\* then the keyword is sent.
transactionCommand(flag, keyword, tag, ok) ==
    [NoEffect EXCEPT
        !.inTransaction = flag,
        !.calls = <<Call("Exec", db, keyword, ok)>>,
        !.out = IF ~ok THEN <<ErrorLine("<err>")>>
                ELSE <<OutLine("ack", tag)>> \o timingLine]

\* Variant: BEGIN is matched as a prefix of the statement.
executeSQLPrefixMatch(sqlStr0, ok) ==
    LET s == TrimSpace(TrimSuffix(TrimSpace(sqlStr0), sSemi))
        upperSQL == ToUpper(s)
    IN IF s = <<>> THEN NoEffect
       ELSE IF HasPrefix(upperSQL, sBEGIN) \/ upperSQL = sSTART_TRANSACTION
            THEN transactionCommand(TRUE, sBEGIN, "BEGIN", ok)
       ELSE IF upperSQL = sCOMMIT
            THEN transactionCommand(FALSE, sCOMMIT, "COMMIT", ok)
       ELSE IF upperSQL = sROLLBACK
            THEN transactionCommand(FALSE, sROLLBACK, "ROLLBACK", ok)
       ELSE IF isQuery(s) THEN executeQuery(s, ok)
       ELSE executeCommand(s, ok)

executeSQL(sqlStr0, ok) ==
    LET s == TrimSpace(TrimSuffix(TrimSpace(sqlStr0), sSemi))
        upperSQL == ToUpper(s)
    IN IF s = <<>> THEN NoEffect
       ELSE IF upperSQL = sBEGIN \/ upperSQL = sSTART_TRANSACTION
            THEN transactionCommand(TRUE, sBEGIN, "BEGIN", ok)
       ELSE IF upperSQL = sCOMMIT
            THEN transactionCommand(FALSE, sCOMMIT, "COMMIT", ok)
       ELSE IF upperSQL = sROLLBACK
            THEN transactionCommand(FALSE, sROLLBACK, "ROLLBACK", ok)
       ELSE IF isQuery(s) THEN executeQuery(s, ok)
       ELSE executeCommand(s, ok)

(***************************************************************************)
(* Meta-command dispatcher                                                 *)
(***************************************************************************)
\* The handle sql.Open returns next; 0 once MaxConns handles are in use, and
\* StartMetaCommand switches no further then.
NewHandle ==
    IF \E h \in Handles : conns[h] = "none"
    THEN CHOOSE h \in Handles :
             conns[h] = "none" /\ \A g \in Handles : g < h => conns[g] # "none"
    ELSE 0

ConnectOutcomes == {"ok", "pingfail", "openfail"}

\* What a handle is opened with: the sslmode and connect_timeout of its DSN
\* and the pool sizes set on it.
Settings(sslmode, timeout, maxOpen, maxIdle, maxLifetime) ==
    [sslmode |-> sslmode, connectTimeout |-> timeout, maxOpen |-> maxOpen,
     maxIdle |-> maxIdle, maxLifetime |-> maxLifetime]

NoSettings == Settings("", 0, 0, 0, 0)

\* Connect: the DSN and the three Set calls take the values of the config.
connectSettings(cfg) ==
    Settings(cfg.SSLMode, cfg.ConnectTimeout, cfg.MaxOpenConns,
             cfg.MaxIdleConns, cfg.ConnMaxLifetime)

\* connectToDatabase: the DSN has sslmode=disable connect_timeout=10 and no
\* Set call is made, which leaves the pool as database/sql creates it: no
\* limit of open connections (0), 2 idle connections, no lifetime (0).
switchSettings == Settings("disable", 10, 0, 2, 0)

\* Variant: the old connection is closed before the new one is pinged.
connectToDatabaseCloseFirst(dbName, oc) ==
    LET newDB == NewHandle
    IN IF oc = "openfail" \/ newDB = 0
       THEN [NoEffect EXCEPT
                !.calls = <<Call("Open", 0, dbName, FALSE)>>,
                !.out = <<ErrorLine("<err>")>>]
       ELSE IF oc = "pingfail"
       THEN [NoEffect EXCEPT
                !.conns = [conns EXCEPT ![db] = "closed", ![newDB] = "closed"],
                !.settings = [settings EXCEPT ![newDB] = switchSettings],
                !.calls = <<Call("Open", newDB, dbName, TRUE),
                            Call("Close", db, <<>>, TRUE),
                            Call("Ping", newDB, <<>>, FALSE),
                            Call("Close", newDB, <<>>, TRUE)>>,
                !.out = <<ErrorLine("database \"<name>\" does not exist")>>]
       ELSE [NoEffect EXCEPT
                !.conns = [conns EXCEPT ![db] = "closed", ![newDB] = "open"],
                !.settings = [settings EXCEPT ![newDB] = switchSettings],
                !.db = newDB,
                !.database = dbName,
                !.calls = <<Call("Open", newDB, dbName, TRUE),
                            Call("Close", db, <<>>, TRUE),
                            Call("Ping", newDB, <<>>, TRUE)>>,
                !.out = <<OutLine("text", "You are now connected to database")>>]

connectToDatabase(dbName, oc) ==
    LET newDB == NewHandle
    IN IF oc = "openfail" \/ newDB = 0
       THEN [NoEffect EXCEPT
                !.calls = <<Call("Open", 0, dbName, FALSE)>>,
                !.out = <<ErrorLine("<err>")>>]
       ELSE IF oc = "pingfail"
       THEN [NoEffect EXCEPT
                !.conns = [conns EXCEPT ![newDB] = "closed"],
                !.settings = [settings EXCEPT ![newDB] = switchSettings],
                !.calls = <<Call("Open", newDB, dbName, TRUE),
                            Call("Ping", newDB, <<>>, FALSE),
                            Call("Close", newDB, <<>>, TRUE)>>,
                !.out = <<ErrorLine("database \"<name>\" does not exist")>>]
       ELSE [NoEffect EXCEPT
                !.conns = IF db # 0
                          THEN [conns EXCEPT ![db] = "closed", ![newDB] = "open"]
                          ELSE [conns EXCEPT ![newDB] = "open"],
                !.settings = [settings EXCEPT ![newDB] = switchSettings],
                !.db = newDB,
                !.database = dbName,
                !.calls = <<Call("Open", newDB, dbName, TRUE),
                            Call("Ping", newDB, <<>>, TRUE)>>
                          \o (IF db # 0 THEN <<Call("Close", db, <<>>, TRUE)>>
                              ELSE <<>>),
                !.out = <<OutLine("text", "You are now connected to database")>>]

describeTable(tableName, ok) ==
    [NoEffect EXCEPT
        !.calls = <<Call("Query", db, tableName, ok)>>,
        !.out = IF ~ok THEN <<ErrorLine("<err>")>>
                ELSE <<OutLine("text", "Table \"<name>\""),
                       OutLine("describe", "<frame, header, rows>"),
                       BlankLine>>]

Recognized(e) == [e EXCEPT !.recognized = TRUE]

Says(text) == Recognized([NoEffect EXCEPT !.out = <<OutLine("text", text)>>])

\* Variant: the two toggles are matched on the lower-cased command.
handlePsqlCommandAnyCase(cmd0, ok, oc) ==
    LET cmd == TrimSpace(cmd0)
        cmdLower == ToLower(cmd)
    IN IF cmd = cmdQ \/ cmdLower = sExit \/ cmdLower = sQuit
       THEN Recognized([NoEffect EXCEPT !.out = <<BlankLine>>])
       ELSE IF cmd = cmdHelp \/ cmdLower = sHelp
       THEN Says("<help>")
       ELSE IF cmd = cmdH \/ HasPrefix(cmd, cmdHsp)
       THEN Says("<sql help>")
       ELSE IF cmd = cmdL \/ cmd = cmdList
       THEN Recognized(executeSQL(sqlListDatabases, ok))
       ELSE IF HasPrefix(cmd, cmdCsp) \/ HasPrefix(cmd, cmdConnectSp)
       THEN LET parts == Fields(cmd)
            IN IF Len(parts) >= 2
               THEN Recognized(connectToDatabase(parts[2], oc))
               ELSE Recognized([NoEffect EXCEPT
                       !.out = <<ErrorLine("database name required")>>])
       ELSE IF cmd = cmdDt \/ cmd = cmdDtPlus
       THEN Recognized(executeSQL(sqlListTables, ok))
       ELSE IF cmd = cmdDn \/ cmd = cmdDnPlus
       THEN Recognized(executeSQL(sqlListSchemas, ok))
       ELSE IF HasPrefix(cmd, cmdDsp)
       THEN Recognized(describeTable(TrimSpace(SubSeq(cmd, 4, Len(cmd))), ok))
       ELSE IF cmd = cmdDv \/ cmd = cmdDvPlus
       THEN Recognized(executeSQL(sqlListViews, ok))
       ELSE IF cmd = cmdDi \/ cmd = cmdDiPlus
       THEN Recognized(executeSQL(sqlListIndexes, ok))
       ELSE IF cmd = cmdDs \/ cmd = cmdDsPlus
       THEN Recognized(executeSQL(sqlListSequences, ok))
       ELSE IF cmd = cmdDf \/ cmd = cmdDfPlus
       THEN Recognized(executeSQL(sqlListFunctions, ok))
       ELSE IF cmd = cmdDu \/ cmd = cmdDuPlus
       THEN Recognized(executeSQL(sqlListRoles, ok))
       ELSE IF cmdLower = cmdX
       THEN Recognized([NoEffect EXCEPT
               !.expandedMode = ~expandedMode,
               !.out = IF ~expandedMode
                       THEN <<OutLine("text", "Expanded display is on.")>>
                       ELSE <<OutLine("text", "Expanded display is off.")>>])
       ELSE IF cmdLower = cmdTiming
       THEN Recognized([NoEffect EXCEPT
               !.timingEnabled = ~timingEnabled,
               !.out = IF ~timingEnabled
                       THEN <<OutLine("text", "Timing is on.")>>
                       ELSE <<OutLine("text", "Timing is off.")>>])
       ELSE IF cmd = cmdConninfo
       THEN Says("You are connected to database")
       ELSE IF cmd = cmdD
       THEN Recognized(executeSQL(sqlPublicTables, ok))
       ELSE NoEffect

\* Variant: \x switches the expanded display on instead of toggling it.
handlePsqlCommandExpandedOn(cmd0, ok, oc) ==
    LET cmd == TrimSpace(cmd0)
        cmdLower == ToLower(cmd)
    IN IF cmd = cmdQ \/ cmdLower = sExit \/ cmdLower = sQuit
       THEN Recognized([NoEffect EXCEPT !.out = <<BlankLine>>])
       ELSE IF cmd = cmdHelp \/ cmdLower = sHelp
       THEN Says("<help>")
       ELSE IF cmd = cmdH \/ HasPrefix(cmd, cmdHsp)
       THEN Says("<sql help>")
       ELSE IF cmd = cmdL \/ cmd = cmdList
       THEN Recognized(executeSQL(sqlListDatabases, ok))
       ELSE IF HasPrefix(cmd, cmdCsp) \/ HasPrefix(cmd, cmdConnectSp)
       THEN LET parts == Fields(cmd)
            IN IF Len(parts) >= 2
               THEN Recognized(connectToDatabase(parts[2], oc))
               ELSE Recognized([NoEffect EXCEPT
                       !.out = <<ErrorLine("database name required")>>])
       ELSE IF cmd = cmdDt \/ cmd = cmdDtPlus
       THEN Recognized(executeSQL(sqlListTables, ok))
       ELSE IF cmd = cmdDn \/ cmd = cmdDnPlus
       THEN Recognized(executeSQL(sqlListSchemas, ok))
       ELSE IF HasPrefix(cmd, cmdDsp)
       THEN Recognized(describeTable(TrimSpace(SubSeq(cmd, 4, Len(cmd))), ok))
       ELSE IF cmd = cmdDv \/ cmd = cmdDvPlus
       THEN Recognized(executeSQL(sqlListViews, ok))
       ELSE IF cmd = cmdDi \/ cmd = cmdDiPlus
       THEN Recognized(executeSQL(sqlListIndexes, ok))
       ELSE IF cmd = cmdDs \/ cmd = cmdDsPlus
       THEN Recognized(executeSQL(sqlListSequences, ok))
       ELSE IF cmd = cmdDf \/ cmd = cmdDfPlus
       THEN Recognized(executeSQL(sqlListFunctions, ok))
       ELSE IF cmd = cmdDu \/ cmd = cmdDuPlus
       THEN Recognized(executeSQL(sqlListRoles, ok))
       ELSE IF cmd = cmdX
       THEN Recognized([NoEffect EXCEPT
               !.expandedMode = TRUE,
               !.out = <<OutLine("text", "Expanded display is on.")>>])
       ELSE IF cmd = cmdTiming
       THEN Recognized([NoEffect EXCEPT
               !.timingEnabled = ~timingEnabled,
               !.out = IF ~timingEnabled
                       THEN <<OutLine("text", "Timing is on.")>>
                       ELSE <<OutLine("text", "Timing is off.")>>])
       ELSE IF cmd = cmdConninfo
       THEN Says("You are connected to database")
       ELSE IF cmd = cmdD
       THEN Recognized(executeSQL(sqlPublicTables, ok))
       ELSE NoEffect

handlePsqlCommand(cmd0, ok, oc) ==
    LET cmd == TrimSpace(cmd0)
        cmdLower == ToLower(cmd)
    IN IF cmd = cmdQ \/ cmdLower = sExit \/ cmdLower = sQuit
       THEN Recognized([NoEffect EXCEPT !.out = <<BlankLine>>])
       ELSE IF cmd = cmdHelp \/ cmdLower = sHelp
       THEN Says("<help>")
       ELSE IF cmd = cmdH \/ HasPrefix(cmd, cmdHsp)
       THEN Says("<sql help>")
       ELSE IF cmd = cmdL \/ cmd = cmdList
       THEN Recognized(executeSQL(sqlListDatabases, ok))
       ELSE IF HasPrefix(cmd, cmdCsp) \/ HasPrefix(cmd, cmdConnectSp)
       THEN LET parts == Fields(cmd)
            IN IF Len(parts) >= 2
               THEN Recognized(connectToDatabase(parts[2], oc))
               ELSE Recognized([NoEffect EXCEPT
                       !.out = <<ErrorLine("database name required")>>])
       ELSE IF cmd = cmdDt \/ cmd = cmdDtPlus
       THEN Recognized(executeSQL(sqlListTables, ok))
       ELSE IF cmd = cmdDn \/ cmd = cmdDnPlus
       THEN Recognized(executeSQL(sqlListSchemas, ok))
       ELSE IF HasPrefix(cmd, cmdDsp)
       THEN Recognized(describeTable(TrimSpace(SubSeq(cmd, 4, Len(cmd))), ok))
       ELSE IF cmd = cmdDv \/ cmd = cmdDvPlus
       THEN Recognized(executeSQL(sqlListViews, ok))
       ELSE IF cmd = cmdDi \/ cmd = cmdDiPlus
       THEN Recognized(executeSQL(sqlListIndexes, ok))
       ELSE IF cmd = cmdDs \/ cmd = cmdDsPlus
       THEN Recognized(executeSQL(sqlListSequences, ok))
       ELSE IF cmd = cmdDf \/ cmd = cmdDfPlus
       THEN Recognized(executeSQL(sqlListFunctions, ok))
       ELSE IF cmd = cmdDu \/ cmd = cmdDuPlus
       THEN Recognized(executeSQL(sqlListRoles, ok))
       ELSE IF cmd = cmdX
       THEN Recognized([NoEffect EXCEPT
               !.expandedMode = ~expandedMode,
               !.out = IF ~expandedMode
                       THEN <<OutLine("text", "Expanded display is on.")>>
                       ELSE <<OutLine("text", "Expanded display is off.")>>])
       ELSE IF cmd = cmdTiming
       THEN Recognized([NoEffect EXCEPT
               !.timingEnabled = ~timingEnabled,
               !.out = IF ~timingEnabled
                       THEN <<OutLine("text", "Timing is on.")>>
                       ELSE <<OutLine("text", "Timing is off.")>>])
       ELSE IF cmd = cmdConninfo
       THEN Says("You are connected to database")
       ELSE IF cmd = cmdD
       THEN Recognized(executeSQL(sqlPublicTables, ok))
       ELSE NoEffect

(***************************************************************************)
(* Statement accumulator                                                   *)
(***************************************************************************)
\* Variant: a first-line meta-command is returned untrimmed.
readMultiLineReturnsLine(line) ==
    LET trimmed == TrimSpace(line)
        cmdLower == ToLower(trimmed)
    IN IF trimmed = <<>> /\ Len(lines) = 0
       THEN [done |-> TRUE, result |-> <<>>, lines |-> lines, setPrompt |-> FALSE]
       ELSE IF Len(lines) = 0 /\ HasPrefix(trimmed, sBackslash)
       THEN [done |-> TRUE, result |-> line, lines |-> lines, setPrompt |-> FALSE]
       ELSE IF Len(lines) = 0
               /\ (cmdLower = sExit \/ cmdLower = sQuit \/ cmdLower = sHelp)
       THEN [done |-> TRUE, result |-> trimmed, lines |-> lines, setPrompt |-> FALSE]
       ELSE IF Len(lines) > 0 /\ HasPrefix(trimmed, sBackslash)
       THEN [done |-> FALSE, result |-> <<>>, lines |-> Append(lines, line),
             setPrompt |-> FALSE]
       ELSE IF HasSuffix(trimmed, sSemi)
       THEN [done |-> TRUE, result |-> Join(Append(lines, line), sNL),
             lines |-> Append(lines, line), setPrompt |-> FALSE]
       ELSE [done |-> FALSE, result |-> <<>>, lines |-> Append(lines, line),
             setPrompt |-> TRUE]

\* Variant: a backslash line is returned as a command wherever it appears.
readMultiLineAnyBackslash(line) ==
    LET trimmed == TrimSpace(line)
        cmdLower == ToLower(trimmed)
    IN IF trimmed = <<>> /\ Len(lines) = 0
       THEN [done |-> TRUE, result |-> <<>>, lines |-> lines, setPrompt |-> FALSE]
       ELSE IF HasPrefix(trimmed, sBackslash)
       THEN [done |-> TRUE, result |-> trimmed, lines |-> lines, setPrompt |-> FALSE]
       ELSE IF Len(lines) = 0
               /\ (cmdLower = sExit \/ cmdLower = sQuit \/ cmdLower = sHelp)
       THEN [done |-> TRUE, result |-> trimmed, lines |-> lines, setPrompt |-> FALSE]
       ELSE IF HasSuffix(trimmed, sSemi)
       THEN [done |-> TRUE, result |-> Join(Append(lines, line), sNL),
             lines |-> Append(lines, line), setPrompt |-> FALSE]
       ELSE [done |-> FALSE, result |-> <<>>, lines |-> Append(lines, line),
             setPrompt |-> TRUE]

\* Variant: a line ends the statement as soon as it contains a semicolon.
readMultiLineContainsSemi(line) ==
    LET trimmed == TrimSpace(line)
        cmdLower == ToLower(trimmed)
    IN IF trimmed = <<>> /\ Len(lines) = 0
       THEN [done |-> TRUE, result |-> <<>>, lines |-> lines, setPrompt |-> FALSE]
       ELSE IF Len(lines) = 0 /\ HasPrefix(trimmed, sBackslash)
       THEN [done |-> TRUE, result |-> trimmed, lines |-> lines, setPrompt |-> FALSE]
       ELSE IF Len(lines) = 0
               /\ (cmdLower = sExit \/ cmdLower = sQuit \/ cmdLower = sHelp)
       THEN [done |-> TRUE, result |-> trimmed, lines |-> lines, setPrompt |-> FALSE]
       ELSE IF Len(lines) > 0 /\ HasPrefix(trimmed, sBackslash)
       THEN [done |-> FALSE, result |-> <<>>, lines |-> Append(lines, line),
             setPrompt |-> FALSE]
       ELSE IF \E i \in 1..Len(trimmed) : <<trimmed[i]>> = sSemi
       THEN [done |-> TRUE, result |-> Join(Append(lines, line), sNL),
             lines |-> Append(lines, line), setPrompt |-> FALSE]
       ELSE [done |-> FALSE, result |-> <<>>, lines |-> Append(lines, line),
             setPrompt |-> TRUE]

\* One pass of readMultiLine's loop, ReadLine having returned line: whether
\* the function returns (done) and what, the buffer, and whether the
\* continuation prompt is set.
readMultiLine(line) ==
    LET trimmed == TrimSpace(line)
        cmdLower == ToLower(trimmed)
    IN IF trimmed = <<>> /\ Len(lines) = 0
       THEN [done |-> TRUE, result |-> <<>>, lines |-> lines, setPrompt |-> FALSE]
       ELSE IF Len(lines) = 0 /\ HasPrefix(trimmed, sBackslash)
       THEN [done |-> TRUE, result |-> trimmed, lines |-> lines, setPrompt |-> FALSE]
       ELSE IF Len(lines) = 0
               /\ (cmdLower = sExit \/ cmdLower = sQuit \/ cmdLower = sHelp)
       THEN [done |-> TRUE, result |-> trimmed, lines |-> lines, setPrompt |-> FALSE]
       ELSE IF Len(lines) > 0 /\ HasPrefix(trimmed, sBackslash)
       THEN [done |-> FALSE, result |-> <<>>, lines |-> Append(lines, line),
             setPrompt |-> FALSE]
       ELSE IF HasSuffix(trimmed, sSemi)
       THEN [done |-> TRUE, result |-> Join(Append(lines, line), sNL),
             lines |-> Append(lines, line), setPrompt |-> FALSE]
       ELSE [done |-> FALSE, result |-> <<>>, lines |-> Append(lines, line),
             setPrompt |-> TRUE]

(***************************************************************************)
(* The lines the Line Source delivers                                      *)
(***************************************************************************)
\* Session runs: meta-commands, shortcut keywords, transaction keywords, SQL.
Lines ==
    {
     <<"\\","q">>,
     <<"\\","Q">>,
     <<"E","X","I","T">>,
     <<"h","e","l","p">>,
     <<"\\","x">>,
     <<"\\","t","i","m","i","n","g">>,
     <<"\\","c"," ","d","b","2">>,
     <<"\\","c"," ">>,
     <<"\\","d"," ","t">>,
     <<"\\","l">>,
     <<" ">>,
     <<"B","E","G","I","N",";">>,
     <<"s","t","a","r","t"," ","t","r","a","n","s","a","c","t","i","o","n",";">>,
     <<"C","O","M","M","I","T",";">>,
     <<"r","o","l","l","b","a","c","k"," ",";">>,
     <<"B","E","G","I","N"," ","T","R","A","N","S","A","C","T","I","O","N",";">>,
     <<"E","N","D",";">>,
     <<"S","A","V","E","P","O","I","N","T"," ","a",";">>,
     <<"S","E","L","E","C","T"," ","1",";">>,
     <<"s","e","l","e","c","t"," ","1">>
    }

\* Accumulator runs: blank, padded, backslash and semicolon-bearing lines.
AccLines ==
    {
     <<" ">>,
     <<>>,
     <<"\\","x">>,
     <<" ","\\","x"," ">>,
     <<"\\","x",";">>,
     <<"e","x","i","t">>,
     <<"s","e","l","e","c","t"," ","1">>,
     <<"s","e","l","e","c","t"," ","1",";"," ","s","e","l","e","c","t"," ","2">>,
     <<"f","r","o","m"," ","t",";">>,
     <<"S","E","L","E","C","T"," ","1",";"," ">>
    }

\* Dispatch runs: the commands handlePsqlCommand tests for, near misses of
\* them, and statements of either shape for the router.
CatLines ==
    {
     <<"\\","?">>,
     <<"\\","q">>,
     <<"\\","h">>,
     <<"\\","h"," ","s","e","l","e","c","t">>,
     <<"\\","l">>,
     <<"\\","l","i","s","t">>,
     <<"\\","d","t">>,
     <<"\\","d","t","+">>,
     <<"\\","d","n">>,
     <<"\\","d","n","+">>,
     <<"\\","d","v">>,
     <<"\\","d","v","+">>,
     <<"\\","d","i">>,
     <<"\\","d","i","+">>,
     <<"\\","d","s">>,
     <<"\\","d","s","+">>,
     <<"\\","d","f">>,
     <<"\\","d","f","+">>,
     <<"\\","d","u">>,
     <<"\\","d","u","+">>,
     <<"\\","d">>,
     <<"\\","d"," ","t">>,
     <<"\\","x">>,
     <<"\\","t","i","m","i","n","g">>,
     <<"\\","c","o","n","n","i","n","f","o">>,
     <<"\\","c"," ","d","b","2">>,
     <<"\\","c","o","n","n","e","c","t"," ","d","b","2">>,
     <<"e","x","i","t">>,
     <<"Q","u","i","t">>,
     <<"H","E","L","P">>,
     <<"\\","X">>,
     <<"\\","T","I","M","I","N","G">>,
     <<"\\","f","o","o">>,
     <<"\\","Q">>,
     <<"\\","L","I","S","T">>,
     <<"\\","l","+">>,
     <<"\\","d","+">>,
     <<"\\","d","t"," ","t">>,
     <<"\\","c">>,
     <<"\\","c","o","n","n","e","c","t">>,
     <<"\\","c","o","n","n","i","n","f","o"," ","x">>,
     <<"s","e","l","e","c","t"," ","1",";">>,
     <<" "," ","S","H","O","W"," ","A","L","L",";">>,
     <<"w","i","t","h"," ","x"," ","a","s"," ","(","s","e","l","e","c","t"," ","1",")"," ","s","e","l","e","c","t"," ","*"," ","f","r","o","m"," ","x",";">>,
     <<"i","n","s","e","r","t"," ","i","n","t","o"," ","t"," ","v","a","l","u","e","s"," ","(","1",")",";">>,
     <<"v","a","c","u","u","m"," ","t",";">>,
     <<"T","A","B","L","E"," ","t",";">>,
     <<"V","a","l","u","e","s"," ","(","1",")",";">>,
     <<"e","x","p","l","a","i","n"," ","s","e","l","e","c","t"," ","1",";">>,
     <<"A","n","a","l","y","z","e"," ","t",";">>,
     <<"u","p","d","a","t","e"," ","t"," ","s","e","t"," ","a"," ","="," ","1",";">>,
     <<"s","h","o","w","t","i","m","e",";">>,
     <<"r","e","s","e","l","e","c","t",";">>
    }

\* Transaction runs: the keywords, a query, a command, a switch, a listing.
PoolLines ==
    {
     <<"B","E","G","I","N",";">>,
     <<"C","O","M","M","I","T",";">>,
     <<"r","o","l","l","b","a","c","k",";">>,
     <<"S","E","L","E","C","T"," ","1",";">>,
     <<"i","n","s","e","r","t"," ","i","n","t","o"," ","t"," ","v","a","l","u","e","s"," ","(","1",")",";">>,
     <<"\\","c"," ","d","b","2">>,
     <<"\\","l">>
    }

ReadErrors == {"EOF", "other"}

\* The row cap NewCLIWithConfig sets.
DefaultMaxRows == 1000

(***************************************************************************)
(* Initial state: NewCLI and Connect have succeeded, Start has set the     *)
(* prompt and is about to read.                                            *)
(***************************************************************************)
InitSession ==
    /\ pc = "read"
    /\ lines = <<>>
    /\ sqlStr = <<>>
    /\ database = ConfigDatabase
    /\ inTransaction = FALSE
    /\ prompt = getPrompt(ConfigDatabase, FALSE)
    /\ db = 1
    /\ conns = [h \in Handles |-> IF h = 1 THEN "open" ELSE "none"]
    /\ expandedMode = FALSE
    /\ timingEnabled = FALSE
    /\ maxRows = DefaultMaxRows
    /\ eof = FALSE
    /\ out = <<>>
    /\ calls = <<>>
    /\ consumed = <<>>
    /\ lastTx = "none"
    /\ everFailed = FALSE

\* No result is being rendered.
InitRenderIdle ==
    /\ cols = <<>>
    /\ stream = <<>>
    /\ colWidths = <<>>
    /\ allRows = <<>>
    /\ rowNum = 0
    /\ term = <<>>
    /\ rpc = "idle"

\* Config values: those NewCLI fills in, those of the custom_config example,
\* and a config that asks for TLS and a single connection.
DefaultConfig ==
    [SSLMode |-> "disable", ConnectTimeout |-> 10, MaxOpenConns |-> 10,
     MaxIdleConns |-> 5, ConnMaxLifetime |-> 3600]

Configs ==
    {DefaultConfig,
     [SSLMode |-> "disable", ConnectTimeout |-> 15, MaxOpenConns |-> 20,
      MaxIdleConns |-> 10, ConnMaxLifetime |-> 7200],
     [SSLMode |-> "require", ConnectTimeout |-> 10, MaxOpenConns |-> 1,
      MaxIdleConns |-> 1, ConnMaxLifetime |-> 3600]}

\* The most physical connections a pool comes to hold in a run.
MaxSessions == 2

\* Connect has opened handle 1 from the config; no transaction is open.
InitBackend(cfg, n) ==
    /\ config = cfg
    /\ settings = [h \in Handles |-> IF h = 1 THEN connectSettings(cfg)
                                     ELSE NoSettings]
    /\ poolConns = n
    /\ tx = [h \in Handles |-> {}]
    /\ served = 0

Init == InitSession /\ InitRenderIdle /\ InitBackend(DefaultConfig, 1)

InitPool ==
    /\ InitSession
    /\ InitRenderIdle
    /\ \E cfg \in Configs, n \in 1..MaxSessions : InitBackend(cfg, n)

(***************************************************************************)
(* History                                                                 *)
(***************************************************************************)
\* The transaction keyword a submitted statement is, if any: its text with
\* surrounding blanks and one trailing semicolon removed, whatever its case.
TxKeywordOf(unit) ==
    LET bare == ToLower(TrimSpace(TrimSuffix(TrimSpace(unit), sSemi)))
    IN IF bare = ToLower(sBEGIN) THEN "BEGIN"
       ELSE IF bare = ToLower(sSTART_TRANSACTION) THEN "START TRANSACTION"
       ELSE IF bare = ToLower(sCOMMIT) THEN "COMMIT"
       ELSE IF bare = ToLower(sROLLBACK) THEN "ROLLBACK"
       ELSE "none"

SomeCallFailed(cs) == \E i \in 1..Len(cs) : ~cs[i].ok

(***************************************************************************)
(* The session loop CLI.Start                                              *)
(***************************************************************************)
\* The physical connections of handle h a call may be served by: those the
\* pool holds, within the limit of open connections set on the handle.
Pool(h) ==
    1..(IF settings[h].maxOpen = 0 \/ settings[h].maxOpen > poolConns
        THEN poolConns ELSE settings[h].maxOpen)

IsStatement(c) == c.op \in {"Exec", "Query"}

\* The backend after the calls of the step, its statement served by physical
\* connection s of the handle that was active: of the keywords executeSQL
\* sends, an acknowledged BEGIN opens a transaction on s and an acknowledged
\* COMMIT or ROLLBACK ends the one on s; closing a handle ends all its
\* connections.
Backend(s) ==
    LET stmts == {i \in 1..Len(calls') : IsStatement(calls'[i])}
        acked == {ToUpper(calls'[i].sql) : i \in {j \in stmts : calls'[j].ok}}
        opens == sBEGIN \in acked
        ends == sCOMMIT \in acked \/ sROLLBACK \in acked
    IN /\ stmts = {} => s = 1
       /\ served' = IF stmts = {} THEN 0 ELSE s
       /\ tx' = [h \in Handles |->
                   IF conns'[h] # "open" THEN {}
                   ELSE IF h = db /\ opens THEN tx[h] \cup {s}
                   ELSE IF h = db /\ ends THEN tx[h] \ {s}
                   ELSE tx[h]]
       /\ UNCHANGED <<config, poolConns>>

\* The session specifications take the backend as an oracle of
\* acknowledgements and do not follow its transactions.
Untracked ==
    /\ served' = 0
    /\ UNCHANGED <<config, poolConns, tx>>

Apply(e) ==
    /\ inTransaction' = e.inTransaction
    /\ expandedMode' = e.expandedMode
    /\ timingEnabled' = e.timingEnabled
    /\ db' = e.db
    /\ database' = e.database
    /\ conns' = e.conns
    /\ settings' = e.settings
    /\ out' = e.out
    /\ calls' = e.calls
    /\ everFailed' = (everFailed \/ SomeCallFailed(e.calls))

IsSwitch(cmd) == HasPrefix(cmd, cmdCsp) \/ HasPrefix(cmd, cmdConnectSp)

\* Variant: Start returns on every shortcut keyword, as readMultiLine tests them.
startReturnsOnShortcut(unit) ==
    ToLower(unit) = sExit \/ ToLower(unit) = sQuit \/ ToLower(unit) = sHelp
        \/ unit = cmdQ

\* Start returns nil after a recognized unit exactly on this condition.
startReturns(unit) ==
    ToLower(unit) = sExit \/ ToLower(unit) = sQuit \/ unit = cmdQ

\* ReadLine returns line to readMultiLine; while readMultiLine has not
\* returned, Start stays in it; an empty result makes Start set the prompt
\* and read again.
StartReadLine(line, cap) ==
    /\ pc = "read"
    /\ ~eof
    /\ LET r == readMultiLine(line)
       IN /\ r.done \/ Len(lines) < cap
          /\ consumed' = IF lines = <<>> THEN <<line>> ELSE Append(consumed, line)
          /\ IF r.done
             THEN /\ lines' = <<>>
                  /\ sqlStr' = r.result
                  /\ IF r.result = <<>>
                     THEN /\ pc' = "read"
                          /\ prompt' = getPrompt(database, inTransaction)
                     ELSE /\ pc' = "dispatch"
                          /\ prompt' = prompt
             ELSE /\ lines' = r.lines
                  /\ sqlStr' = <<>>
                  /\ pc' = "read"
                  /\ prompt' = IF r.setPrompt THEN continuationPrompt(database)
                               ELSE prompt
    /\ out' = <<>>
    /\ calls' = <<>>
    /\ UNCHANGED <<database, db, conns, inTransaction, expandedMode,
                   timingEnabled, maxRows, eof, lastTx, everFailed>>
    /\ UNCHANGED renderVars
    /\ served' = 0
    /\ UNCHANGED <<config, settings, poolConns, tx>>

\* ReadLine returns an error (io.EOF or another): readMultiLine returns "",
\* Start sets the prompt and reads again.
StartReadError(err) ==
    /\ pc = "read"
    /\ eof => err = "EOF"
    /\ eof' = (eof \/ err = "EOF")
    /\ lines' = <<>>
    /\ sqlStr' = <<>>
    /\ pc' = "read"
    /\ prompt' = getPrompt(database, inTransaction)
    /\ consumed' = IF lines = <<>> THEN <<>> ELSE consumed
    /\ out' = <<>>
    /\ calls' = <<>>
    /\ UNCHANGED <<database, db, conns, inTransaction, expandedMode,
                   timingEnabled, maxRows, lastTx, everFailed>>
    /\ UNCHANGED renderVars
    /\ served' = 0
    /\ UNCHANGED <<config, settings, poolConns, tx>>

\* handlePsqlCommand recognizes the unit; Start returns on the quit units.
DispatchMetaCommand ==
    /\ pc = "dispatch"
    /\ LET unit == TrimSpace(sqlStr)
       IN /\ IsSwitch(unit) => \E h \in Handles : conns[h] = "none"
          /\ \E ok \in BOOLEAN, oc \in ConnectOutcomes :
                LET e == handlePsqlCommand(unit, ok, oc)
                IN /\ e.recognized
                   /\ Apply(e)
                   /\ IF startReturns(unit)
                      THEN pc' = "done" /\ prompt' = prompt
                      ELSE /\ pc' = "read"
                           /\ prompt' = getPrompt(e.database, e.inTransaction)
    /\ UNCHANGED <<lines, sqlStr, maxRows, eof, consumed, lastTx>>
    /\ UNCHANGED renderVars

\* handlePsqlCommand does not recognize the unit: Start executes it as SQL.
DispatchExecuteSQL ==
    /\ pc = "dispatch"
    /\ LET unit == TrimSpace(sqlStr)
       IN /\ ~handlePsqlCommand(unit, TRUE, "ok").recognized
          /\ \E ok \in BOOLEAN :
                LET e == executeSQL(unit, ok)
                IN /\ Apply(e)
                   /\ prompt' = getPrompt(e.database, e.inTransaction)
          /\ lastTx' = IF TxKeywordOf(unit) # "none" THEN TxKeywordOf(unit)
                       ELSE lastTx
    /\ pc' = "read"
    /\ UNCHANGED <<lines, sqlStr, maxRows, eof, consumed>>
    /\ UNCHANGED renderVars

StartMetaCommand == DispatchMetaCommand /\ Untracked

StartExecuteSQL == DispatchExecuteSQL /\ Untracked

\* The same two steps with the backend followed: the statement of the step
\* is served by any physical connection of the active handle's pool.
PoolMetaCommand == DispatchMetaCommand /\ \E s \in Pool(db) : Backend(s)

PoolExecuteSQL == DispatchExecuteSQL /\ \E s \in Pool(db) : Backend(s)

Next ==
    \/ \E line \in Lines : StartReadLine(line, MaxLines)
    \/ \E err \in ReadErrors : StartReadError(err)
    \/ StartMetaCommand
    \/ StartExecuteSQL

Spec == Init /\ [][Next]_vars

NextAcc ==
    \/ \E line \in AccLines : StartReadLine(line, MaxAccLines)
    \/ \E err \in ReadErrors : StartReadError(err)
    \/ StartMetaCommand
    \/ StartExecuteSQL

SpecAcc == Init /\ [][NextAcc]_vars

NextCat ==
    \/ \E line \in CatLines : StartReadLine(line, MaxLines)
    \/ \E err \in ReadErrors : StartReadError(err)
    \/ StartMetaCommand
    \/ StartExecuteSQL

SpecCat == Init /\ [][NextCat]_vars

NextPool ==
    \/ \E line \in PoolLines : StartReadLine(line, MaxLines)
    \/ \E err \in ReadErrors : StartReadError(err)
    \/ PoolMetaCommand
    \/ PoolExecuteSQL

SpecPool == InitPool /\ [][NextPool]_vars

(***************************************************************************)
(* Result renderers: displayTable and displayExpanded                      *)
(*                                                                         *)
(* A Go string is a sequence of bytes: len and slicing count bytes, while  *)
(* the width of a %-*s verb counts characters.  A byte is a one-character  *)
(* string here, or one of the two bytes of a two-byte character.           *)
(***************************************************************************)
LeadByte == "<C3>"

ContinuationByte == "<A9>"

\* utf8.RuneCountInString, as fmt uses it to pad: a byte that continues a
\* character adds nothing.
RuneCount(s) == Cardinality({i \in DOMAIN s : s[i] # ContinuationByte})

Repeat(b, n) == [i \in 1..n |-> b]

\* fmt's "%-*s": s, then blanks up to w characters.
PadRight(s, w) ==
    IF RuneCount(s) >= w THEN s ELSE s \o Repeat(" ", w - RuneCount(s))

Digits == <<"0","1","2","3","4","5","6","7","8","9">>

RECURSIVE Itoa(_)
\* fmt's "%d" of a natural number.
Itoa(n) == IF n < 10 THEN <<Digits[n + 1]>>
           ELSE Itoa(n \div 10) \o <<Digits[(n % 10) + 1]>>

RECURSIVE Concat(_)
Concat(ss) == IF ss = <<>> THEN <<>> ELSE Head(ss) \o Concat(Tail(ss))

\* The blocks displayTable starts a column with.
MinWidth == 4

MaxWidth == 50

\* The bytes kept of a value that is cut.
KeepLen == 47

\* The length of the rule that heads a record of displayExpanded.
RecordRule == 50

Ellipsis == <<".",".",".">>

\* A scanned value as text: nil, []byte, time.Time, bool, and "%v" of the rest.
formatValue(v) ==
    IF v.t = "nil" THEN <<>>
    ELSE IF v.t = "bytes" THEN v.b
    ELSE IF v.t = "time"
    THEN <<"2","0","0","6","-","0","1","-","0","2"," ","1","5",":","0","4",":","0","5">>
    ELSE IF v.t = "bool" THEN (IF v.f THEN <<"t">> ELSE <<"f">>)
    ELSE Itoa(v.n)

\* colWidths[i] before any row is read.
initialWidth(col) ==
    LET w0 == Len(col)
        w1 == IF w0 < MinWidth THEN MinWidth ELSE w0
    IN IF w1 > MaxWidth THEN MaxWidth ELSE w1

\* The width update for one value: the width and the text kept for the row.
updateWidth(w, s) ==
    IF Len(s) > w
    THEN IF Len(s) > MaxWidth
         THEN [w |-> MaxWidth, s |-> SubSeq(s, 1, KeepLen) \o Ellipsis]
         ELSE [w |-> Len(s), s |-> s]
    ELSE [w |-> w, s |-> s]

headerLine(labels, widths) ==
    <<" ">> \o Concat([i \in 1..Len(labels) |->
        PadRight(labels[i], widths[i]) \o <<" ">>
            \o (IF i < Len(labels) THEN <<"|"," ">> ELSE <<>>)])

separatorLine(widths) ==
    Concat([i \in 1..Len(widths) |->
        Repeat("-", widths[i] + 1)
            \o (IF i < Len(widths) THEN <<"+","-">> ELSE <<>>)])

rowLine(row, widths) ==
    <<" ">> \o Concat([i \in 1..Len(row) |->
        PadRight(row[i], widths[i]) \o <<" ">>
            \o (IF i < Len(row) THEN <<"|"," ">> ELSE <<>>)])

footerLine(rowCount) ==
    IF rowCount = 0 THEN <<"(","0"," ","r","o","w","s",")">>
    ELSE IF rowCount = 1 THEN <<"(","1"," ","r","o","w",")">>
    ELSE <<"(">> \o Itoa(rowCount) \o <<" ","r","o","w","s",")">>

timeText == <<"T","i","m","e",":"," ","<elapsed>"," ","m","s">>

timingText == IF timingEnabled THEN <<timeText>> ELSE <<>>

recordHeader(n) ==
    LET head == <<"-","["," ","R","E","C","O","R","D"," ">> \o Itoa(n)
                    \o <<" ","]">>
    IN head \o Repeat("-", RecordRule - Len(head))

RECURSIVE maxColLen(_)
maxColLen(labels) ==
    IF labels = <<>> THEN 0
    ELSE LET m == maxColLen(Tail(labels))
         IN IF Len(Head(labels)) > m THEN Len(Head(labels)) ELSE m

recordLine(label, w, v) ==
    PadRight(label, w) \o <<" ","|"," ">> \o formatValue(v)

\* displayTable, first block: the widths the labels give.
displayTableWidths ==
    /\ rpc = "start"
    /\ ~expandedMode
    /\ colWidths' = [i \in 1..Len(cols) |-> initialWidth(cols[i])]
    /\ rpc' = "scan"
    /\ UNCHANGED <<cols, stream, allRows, rowNum, term>>
    /\ UNCHANGED sessionVars
    /\ UNCHANGED backendVars

\* Variant: the loop stops only when more than maxRows rows are collected.
displayTableScanOffByOne ==
    /\ rpc = "scan"
    /\ IF Len(allRows) = Len(stream)
       THEN /\ rpc' = "print"
            /\ UNCHANGED <<colWidths, allRows>>
       ELSE LET vals == stream[Len(allRows) + 1]
                upd == [i \in 1..Len(vals) |->
                           updateWidth(colWidths[i], formatValue(vals[i]))]
            IN /\ colWidths' = [i \in 1..Len(vals) |-> upd[i].w]
               /\ allRows' = Append(allRows, [i \in 1..Len(vals) |-> upd[i].s])
               /\ rpc' = IF Len(allRows') > maxRows THEN "print" ELSE "scan"
    /\ UNCHANGED <<cols, stream, rowNum, term>>
    /\ UNCHANGED sessionVars
    /\ UNCHANGED backendVars

\* displayTable, one turn of the rows.Next loop: the next row of the stream
\* (the one after those collected) is scanned and formatted, the widths
\* grow, the loop stops at maxRows rows.
displayTableScan ==
    /\ rpc = "scan"
    /\ IF Len(allRows) = Len(stream)
       THEN /\ rpc' = "print"
            /\ UNCHANGED <<colWidths, allRows>>
       ELSE LET vals == stream[Len(allRows) + 1]
                upd == [i \in 1..Len(vals) |->
                           updateWidth(colWidths[i], formatValue(vals[i]))]
            IN /\ colWidths' = [i \in 1..Len(vals) |-> upd[i].w]
               /\ allRows' = Append(allRows, [i \in 1..Len(vals) |-> upd[i].s])
               /\ rpc' = IF Len(allRows') >= maxRows THEN "print" ELSE "scan"
    /\ UNCHANGED <<cols, stream, rowNum, term>>
    /\ UNCHANGED sessionVars
    /\ UNCHANGED backendVars

\* displayTable, the printing blocks: header, separator, rows, footer, time.
displayTablePrint ==
    /\ rpc = "print"
    /\ term' = <<headerLine(cols, colWidths), separatorLine(colWidths)>>
                 \o [r \in 1..Len(allRows) |-> rowLine(allRows[r], colWidths)]
                 \o <<footerLine(Len(allRows))>>
                 \o timingText \o <<<<>>>>
    /\ rpc' = "done"
    /\ UNCHANGED <<cols, stream, colWidths, allRows, rowNum>>
    /\ UNCHANGED sessionVars
    /\ UNCHANGED backendVars

\* displayExpanded, one turn of the rows.Next loop: the record is printed,
\* the loop stops at maxRows records.
displayExpandedRecord ==
    /\ rpc \in {"start", "records"}
    /\ expandedMode
    /\ IF rowNum = Len(stream)
       THEN /\ rpc' = "footer"
            /\ UNCHANGED <<rowNum, term>>
       ELSE LET vals == stream[rowNum + 1]
            IN /\ rowNum' = rowNum + 1
               /\ term' = term \o <<recordHeader(rowNum')>>
                            \o [i \in 1..Len(cols) |->
                                   recordLine(cols[i], maxColLen(cols), vals[i])]
               /\ rpc' = IF rowNum' >= maxRows THEN "footer" ELSE "records"
    /\ UNCHANGED <<cols, stream, colWidths, allRows>>
    /\ UNCHANGED sessionVars
    /\ UNCHANGED backendVars

\* displayExpanded, after the loop: "(0 rows)" for no record, the time.
displayExpandedFooter ==
    /\ rpc = "footer"
    /\ term' = term \o (IF rowNum = 0 THEN <<footerLine(0)>> ELSE <<>>)
                 \o timingText \o <<<<>>>>
    /\ rpc' = "done"
    /\ UNCHANGED <<cols, stream, colWidths, allRows, rowNum>>
    /\ UNCHANGED sessionVars
    /\ UNCHANGED backendVars

\* Results for the renderers: text of n bytes, and text of n two-byte
\* characters.
Text(n) == [i \in 1..n |-> Digits[(i % 10) + 1]]

Accented(n) == [i \in 1..(2 * n) |-> IF i % 2 = 1 THEN LeadByte
                                     ELSE ContinuationByte]

\* A value rows.Scan stores: its dynamic type and, by type, its content.
Value(t, b, f, n) == [t |-> t, b |-> b, f |-> f, n |-> n]

Null == Value("nil", <<>>, FALSE, 0)

Bytes(b) == Value("bytes", b, FALSE, 0)

\* The most rows a result stream delivers, and the greatest row cap.
MaxStream == 2

MaxCap == 2

LongLabel == Text(51)

ColumnLists ==
    {<<<<"i","d">>>>, <<<<"n","a","m","e">>>>, <<<<"c","r","e","a","t","e","d">>>>,
     <<LongLabel>>,
     <<<<"i","d">>, <<"n","a","m","e">>>>,
     <<LongLabel, <<"i","d">>>>}

Values ==
    {Null, Bytes(Text(3)), Bytes(Text(50)), Bytes(Text(60)),
     Bytes(Accented(26)), Value("bool", <<>>, TRUE, 0),
     Value("int", <<>>, FALSE, 42), Value("time", <<>>, FALSE, 0)}

PairValues == {Null, Bytes(Text(60))}

RowsOf(labels) ==
    IF Len(labels) = 1 THEN {<<v>> : v \in Values}
    ELSE {<<v, w>> : v \in PairValues, w \in PairValues}

RECURSIVE StreamsOf(_, _)
StreamsOf(labels, n) ==
    IF n = 0 THEN {<<>>}
    ELSE StreamsOf(labels, n - 1)
            \cup {Append(st, r) : st \in {x \in StreamsOf(labels, n - 1) :
                                             Len(x) = n - 1},
                                  r \in RowsOf(labels)}

\* executeQuery has its rows and is about to call a renderer; the row cap
\* of the run stands for the 1000 of NewCLIWithConfig.
InitRender ==
    /\ pc = "dispatch"
    /\ lines = <<>>
    /\ sqlStr = <<"S","E","L","E","C","T"," ","1",";">>
    /\ database = ConfigDatabase
    /\ inTransaction = FALSE
    /\ prompt = getPrompt(ConfigDatabase, FALSE)
    /\ db = 1
    /\ conns = [h \in Handles |-> IF h = 1 THEN "open" ELSE "none"]
    /\ expandedMode \in BOOLEAN
    /\ timingEnabled \in BOOLEAN
    /\ maxRows \in 1..MaxCap
    /\ eof = FALSE
    /\ out = <<>>
    /\ calls = <<>>
    /\ consumed = <<sqlStr>>
    /\ lastTx = "none"
    /\ everFailed = FALSE
    /\ cols \in ColumnLists
    /\ stream \in StreamsOf(cols, MaxStream)
    /\ colWidths = <<>>
    /\ allRows = <<>>
    /\ rowNum = 0
    /\ term = <<>>
    /\ rpc = "start"
    /\ InitBackend(DefaultConfig, 1)

NextRender ==
    \/ displayTableWidths
    \/ displayTableScan
    \/ displayTablePrint
    \/ displayExpandedRecord
    \/ displayExpandedFooter

SpecRender == InitRender /\ [][NextRender]_vars

(***************************************************************************)
(* Vocabulary of the properties                                            *)
(***************************************************************************)
Unit == TrimSpace(sqlStr)

Last(ls) == ls[Len(ls)]

HasMarker == prompt = database \o <<"*","=",">"," ">>

HasPlainPrompt == prompt = database \o <<"=",">"," ">>

IsQuitUnit(u) == u = <<"\\","q">> \/ ToLower(u) \in {sExit, sQuit}

EndsStatement(line) == HasSuffix(TrimSpace(line), sSemi)

IsBackslashLine(line) == HasPrefix(TrimSpace(line), sBackslash)

\* A first line that opens an accumulation: not blank, no meta-command, no
\* shortcut keyword.
StartsAccumulation(line) ==
    /\ TrimSpace(line) # <<>>
    /\ ~IsBackslashLine(line)
    /\ ToLower(TrimSpace(line)) \notin {sExit, sQuit, sHelp}

FailedCall(ops) == \E i \in 1..Len(calls) : calls[i].op \in ops /\ ~calls[i].ok

HasErrorLine(o) == \E i \in 1..Len(o) : IsErrorLine(o[i])

(***************************************************************************)
(* C1: for a transaction keyword statement (BEGIN, START TRANSACTION,      *)
(* COMMIT, ROLLBACK) whose backend call fails, inTransaction after the     *)
(* statement equals its value before the statement.                        *)
(***************************************************************************)
C1_FlagUnchangedOnFailure ==
    [][(/\ pc = "dispatch"
        /\ TxKeywordOf(Unit) # "none"
        /\ SomeCallFailed(calls'))
       => inTransaction' = inTransaction]_vars

(***************************************************************************)
(* C2: a database switch whose new connection cannot be opened or fails    *)
(* the ping leaves the active connection handle and the database name as   *)
(* they were, does not close the old connection, and emits an ERROR line.  *)
(***************************************************************************)
C2_FailedSwitchKeepsConnection ==
    [][(/\ pc = "dispatch"
        /\ IsSwitch(Unit)
        /\ \E i \in 1..Len(calls') :
              calls'[i].op \in {"Open", "Ping"} /\ ~calls'[i].ok)
       => /\ db' = db
          /\ database' = database
          /\ conns[db] = "open"
          /\ conns'[db] = "open"
          /\ \A i \in 1..Len(calls') :
                ~(calls'[i].op = "Close" /\ calls'[i].conn = db)
          /\ HasErrorLine(out')
          /\ pc' = "read"]_vars

C2_Witness ==
    /\ pc = "read"
    /\ IsSwitch(Unit)
    /\ FailedCall({"Ping"})
    /\ db = 2
    /\ conns[db] = "open"
    /\ HasErrorLine(out)

(***************************************************************************)
(* C3: once the Line Source has reported end-of-input, Start has returned  *)
(* and is not reading from the Line Source again.                          *)
(***************************************************************************)
C3_EndOfInputEndsLoop == eof => pc = "done"

(***************************************************************************)
(* C4: Start returns after exactly the units \q (case-sensitive), exit and *)
(* quit (any case); after every other unit, also one that failed at the    *)
(* backend and also \Q, the loop reads the next unit.                      *)
(***************************************************************************)
C4_OnlyQuitUnitsEndLoop ==
    [][/\ pc = "dispatch" =>
            IF IsQuitUnit(Unit) THEN pc' = "done" ELSE pc' = "read"
       /\ (pc # "done" /\ pc' = "done") => (pc = "dispatch" /\ IsQuitUnit(Unit))
      ]_vars

C4_Witness ==
    /\ pc = "read"
    /\ Unit = <<"\\","Q">>
    /\ FailedCall({"Exec"})
    /\ lines = <<>>

(***************************************************************************)
(* C5: as long as every backend call has succeeded, the prompt set for the *)
(* next statement carries the transaction marker exactly if the last       *)
(* transaction keyword submitted was BEGIN or START TRANSACTION.           *)
(***************************************************************************)
C5_MarkerFollowsLastKeyword ==
    (pc = "read" /\ lines = <<>> /\ ~everFailed)
        => /\ HasMarker <=> lastTx \in {"BEGIN", "START TRANSACTION"}
           /\ HasMarker \/ HasPlainPrompt

\* BEGIN; then SELECT 1; has been run: the marker is still present.
C5_Witness ==
    /\ pc = "read"
    /\ lines = <<>>
    /\ ~everFailed
    /\ lastTx = "BEGIN"
    /\ Unit = <<"S","E","L","E","C","T"," ","1",";">>
    /\ Len(calls) = 1
    /\ HasMarker

(***************************************************************************)
(* C6: inTransaction is changed only by a statement that, trimmed and      *)
(* stripped of one trailing semicolon, is BEGIN, START TRANSACTION, COMMIT *)
(* or ROLLBACK in any case; every other statement and every meta-command   *)
(* leaves it unchanged, whether or not the backend call succeeds.          *)
(***************************************************************************)
C6_OnlyKeywordsChangeFlag ==
    [][inTransaction' # inTransaction
          => (pc = "dispatch" /\ TxKeywordOf(Unit) # "none")]_vars

\* BEGIN TRANSACTION; has been sent to the backend and the flag is down.
C6_Witness ==
    /\ pc = "read"
    /\ Unit = <<"B","E","G","I","N"," ","T","R","A","N","S","A","C","T","I","O","N",";">>
    /\ Len(calls) = 1
    /\ ~inTransaction

(***************************************************************************)
(* C7 as stated: a first line that, trimmed, starts with the backslash is  *)
(* returned verbatim as a one-line unit after exactly one ReadLine call.   *)
(***************************************************************************)
C7_MetaLineReturnedVerbatim ==
    (consumed # <<>> /\ IsBackslashLine(consumed[1]))
        => /\ Len(consumed) = 1
           /\ lines = <<>>
           /\ sqlStr = consumed[1]

(***************************************************************************)
(* C7 amended: a first line that, trimmed, starts with the backslash is    *)
(* returned with its surrounding whitespace removed, as a one-line unit,   *)
(* after exactly one ReadLine call.                                        *)
(***************************************************************************)
C7_MetaLineReturnedTrimmed ==
    (consumed # <<>> /\ IsBackslashLine(consumed[1]))
        => /\ Len(consumed) = 1
           /\ lines = <<>>
           /\ sqlStr = TrimSpace(consumed[1])

C7_Witness ==
    /\ pc = "dispatch"
    /\ consumed = << <<" ","\\","x"," ">> >>
    /\ sqlStr = <<"\\","x">>

(***************************************************************************)
(* C8: a sequence of lines that starts with a line opening an accumulation *)
(* and in which only the final line ends in a semicolon is returned whole, *)
(* its lines in order joined by newline, and no further line is read.      *)
(***************************************************************************)
C8_SequenceReturnedWhole ==
    (/\ consumed # <<>>
     /\ StartsAccumulation(consumed[1])
     /\ EndsStatement(Last(consumed))
     /\ \A i \in 1..(Len(consumed) - 1) : ~EndsStatement(consumed[i]))
        => /\ lines = <<>>
           /\ sqlStr = Join(consumed, sNL)

(***************************************************************************)
(* C9: during accumulation every line that ends with a semicolon (trailing *)
(* whitespace aside) ends the accumulation, whatever its first character:  *)
(* the buffer joined by newlines is returned and no further line is read.  *)
(***************************************************************************)
C9_SemicolonLineTerminates ==
    \A n \in 1..Len(consumed) :
        (StartsAccumulation(consumed[1]) /\ EndsStatement(consumed[n]))
            => /\ n = Len(consumed)
               /\ lines = <<>>
               /\ pc = "dispatch" => sqlStr = Join(consumed, sNL)

(***************************************************************************)
(* C10: once accumulation has begun, a line starting with the backslash is *)
(* appended to the buffer as SQL text and is part of the unit returned; it *)
(* is not returned on its own and the dispatcher does not take the unit    *)
(* for a meta-command.                                                     *)
(***************************************************************************)
C10_BackslashLineIsSQLText ==
    /\ lines # <<>> => lines = consumed
    /\ \A n \in 2..Len(consumed) :
          (IsBackslashLine(consumed[n]) /\ pc = "dispatch")
              => /\ sqlStr = Join(consumed, sNL)
                 /\ ~handlePsqlCommand(Unit, TRUE, "ok").recognized

\* select 1 / \x / from t; has been returned as one unit.
C10_Witness ==
    /\ pc = "dispatch"
    /\ Len(consumed) = 3
    /\ IsBackslashLine(consumed[2])
    /\ sqlStr = Join(consumed, sNL)

(***************************************************************************)
(* C11: every unit Start hands to the dispatcher or the router is          *)
(* non-empty and is a line starting with the backslash, a shortcut keyword *)
(* (exit, quit, help in any case) or SQL text whose trimmed form ends with *)
(* a semicolon; a blank first line or a read error, also in the middle of  *)
(* an accumulation, gives the empty result, which the loop passes over     *)
(* with no dispatch, no backend call and no change of the session.         *)
(***************************************************************************)
C11_UnitsWellFormed ==
    [][/\ pc' = "dispatch" =>
            /\ Unit' # <<>>
            /\ \/ HasPrefix(Unit', sBackslash)
               \/ ToLower(Unit') \in {sExit, sQuit, sHelp}
               \/ HasSuffix(Unit', sSemi)
       /\ (pc = "read" /\ sqlStr' = <<>>) =>
            /\ pc' = "read"
            /\ calls' = <<>>
            /\ out' = <<>>
            /\ UNCHANGED <<database, db, conns, inTransaction, expandedMode,
                           timingEnabled, maxRows>>
      ]_vars

\* End-of-input in the middle of an accumulation: the lines are dropped.
C11_Witness ==
    /\ pc = "read"
    /\ eof
    /\ consumed # <<>>
    /\ StartsAccumulation(consumed[1])
    /\ lines = <<>>
    /\ sqlStr = <<>>
    /\ calls = <<>>

(***************************************************************************)
(* C12: a connect command without its argument (\c or \connect alone,      *)
(* also when followed only by whitespace) is answered with an error line   *)
(* and causes no backend call.                                             *)
(***************************************************************************)
C12_MissingArgumentReportedInline ==
    [][(pc = "dispatch" /\ Unit \in {<<"\\", "c">>, TrimRight(cmdConnectSp)}) =>
          /\ calls' = <<>>
          /\ HasErrorLine(out')
      ]_vars

(***************************************************************************)
(* C13: handlePsqlCommand reports a unit as recognized exactly when it is  *)
(* one of the fixed commands: the exact, case-sensitive tokens, a unit     *)
(* with one of the prefixes "\h ", "\c ", "\connect ", "\d ", or exit,     *)
(* quit, help in any case.  Every other unit is reported as not a          *)
(* meta-command, changes no display setting and no connection, and is      *)
(* sent by Start to executeSQL.                                            *)
(***************************************************************************)
CatalogTokens ==
    {
     <<"\\","?">>,
     <<"\\","q">>,
     <<"\\","h">>,
     <<"\\","l">>,
     <<"\\","l","i","s","t">>,
     <<"\\","d","t">>,
     <<"\\","d","t","+">>,
     <<"\\","d","n">>,
     <<"\\","d","n","+">>,
     <<"\\","d","v">>,
     <<"\\","d","v","+">>,
     <<"\\","d","i">>,
     <<"\\","d","i","+">>,
     <<"\\","d","s">>,
     <<"\\","d","s","+">>,
     <<"\\","d","f">>,
     <<"\\","d","f","+">>,
     <<"\\","d","u">>,
     <<"\\","d","u","+">>,
     <<"\\","d">>,
     <<"\\","x">>,
     <<"\\","t","i","m","i","n","g">>,
     <<"\\","c","o","n","n","i","n","f","o">>
    }

CatalogPrefixes ==
    {
     <<"\\","h"," ">>,
     <<"\\","c"," ">>,
     <<"\\","c","o","n","n","e","c","t"," ">>,
     <<"\\","d"," ">>
    }

InCatalog ==
    \/ Unit \in CatalogTokens
    \/ \E p \in CatalogPrefixes : HasPrefix(Unit, p)
    \/ ToLower(Unit) \in {sExit, sQuit, sHelp}

C14_TogglesFlipOwnFlag ==
    [][/\ (pc = "dispatch" /\ Unit = cmdX) =>
            /\ expandedMode' = ~expandedMode
            /\ UNCHANGED <<timingEnabled, inTransaction, database, db, conns,
                           maxRows>>
            /\ calls' = <<>>
            /\ out' = <<OutLine("text", IF expandedMode'
                                        THEN "Expanded display is on."
                                        ELSE "Expanded display is off.")>>
       /\ (pc = "dispatch" /\ Unit = cmdTiming) =>
            /\ timingEnabled' = ~timingEnabled
            /\ UNCHANGED <<expandedMode, inTransaction, database, db, conns,
                           maxRows>>
            /\ calls' = <<>>
            /\ out' = <<OutLine("text", IF timingEnabled'
                                        THEN "Timing is on."
                                        ELSE "Timing is off.")>>
      ]_vars

\* \x has just switched the expanded display off again; timing stays on.
C14_Witness ==
    /\ pc = "read"
    /\ Unit = cmdX
    /\ ~expandedMode
    /\ timingEnabled
    /\ out = <<OutLine("text", "Expanded display is off.")>>

(***************************************************************************)
(* C15: with timingEnabled set, a statement that went through executeSQL   *)
(* (typed, or delegated by a listing command) and succeeded has exactly    *)
(* one elapsed-time line, right after its result: table, expanded records, *)
(* command tag or transaction acknowledgement.  A failed statement has     *)
(* none, and with timingEnabled clear no statement has one.                *)
(***************************************************************************)
TimeLines(o) == Cardinality({i \in DOMAIN o : o[i] = TimeLine})

RoutedThroughExecuteSQL ==
    /\ pc = "read"
    /\ Len(calls) = 1
    /\ calls[1].op \in {"Exec", "Query"}
    /\ ~HasPrefix(Unit, cmdDsp)

C15_OneTimeLinePerSuccess ==
    RoutedThroughExecuteSQL =>
        IF timingEnabled /\ calls[1].ok
        THEN /\ TimeLines(out) = 1
             /\ out[1].k \in {"table", "expanded", "tag", "ack"}
             /\ out[2] = TimeLine
        ELSE TimeLines(out) = 0

\* COMMIT acknowledged with timing on: the acknowledgement, then the time.
C15_Witness ==
    /\ RoutedThroughExecuteSQL
    /\ timingEnabled
    /\ Unit = <<"C","O","M","M","I","T",";">>
    /\ out = <<OutLine("ack", "COMMIT"), TimeLine>>

(***************************************************************************)
(* C16: every backend failure of a statement, on each path (query,         *)
(* command, transaction keyword, describe-table), is reported as the one   *)
(* line "ERROR: <message>" followed by a blank line, and the loop goes on  *)
(* reading.                                                                *)
(***************************************************************************)
C16_FailureIsErrorThenBlank ==
    FailedCall({"Exec", "Query"}) =>
        /\ pc = "read"
        /\ out = <<ErrorLine("<err>"), BlankLine>>

(***************************************************************************)
(* C17: a statement that fails at the backend changes no session state but *)
(* the transaction flag: database name, active connection, expandedMode,   *)
(* timingEnabled and the row cap are as before, and Start reads the next   *)
(* line, which therefore runs as it would have run without the failure.    *)
(***************************************************************************)
C17_FailureLeavesSession ==
    [][(/\ pc = "dispatch"
        /\ \E i \in 1..Len(calls') :
              calls'[i].op \in {"Exec", "Query"} /\ ~calls'[i].ok) =>
          /\ pc' = "read"
          /\ UNCHANGED <<database, db, conns, expandedMode, timingEnabled,
                         maxRows>>
      ]_vars

\* A query has failed on the second connection with both settings on.
C17_Witness ==
    /\ pc = "read"
    /\ FailedCall({"Query"})
    /\ HasErrorLine(out)
    /\ db = 2
    /\ conns[2] = "open"
    /\ expandedMode
    /\ timingEnabled

(***************************************************************************)
(* C18: a statement that is no transaction keyword is run with the query   *)
(* primitive and shown by a renderer exactly when its text, leading        *)
(* whitespace trimmed, begins in any case with SELECT, SHOW, WITH, TABLE,  *)
(* VALUES, EXPLAIN or ANALYZE; every other statement is run with the exec  *)
(* primitive and answered with a command tag and the affected-row count.   *)
(***************************************************************************)
QueryKeywords ==
    {
     <<"s","e","l","e","c","t">>,
     <<"s","h","o","w">>,
     <<"w","i","t","h">>,
     <<"t","a","b","l","e">>,
     <<"v","a","l","u","e","s">>,
     <<"e","x","p","l","a","i","n">>,
     <<"a","n","a","l","y","z","e">>
    }

BeginsWithQueryKeyword ==
    \E k \in QueryKeywords : HasPrefix(ToLower(TrimLeft(sqlStr)), k)

C18_QueryShapeDecidesPrimitive ==
    (/\ pc = "read"
     /\ Len(calls) = 1
     /\ calls[1].op \in {"Exec", "Query"}
     /\ ~InCatalog
     /\ TxKeywordOf(Unit) = "none") =>
        /\ calls[1].op = "Query" <=> BeginsWithQueryKeyword
        /\ (calls[1].op = "Query" /\ calls[1].ok) =>
                out[1].k \in {"table", "expanded"}
        /\ (calls[1].op = "Exec" /\ calls[1].ok) => out[1].k = "tag"

\* The lower-case WITH statement has been run as a query and rendered.
C18_Witness ==
    /\ pc = "read"
    /\ sqlStr = <<"w","i","t","h"," ","x"," ","a","s"," ","(","s","e","l","e","c","t"," ","1",")"," ","s","e","l","e","c","t"," ","*"," ","f","r","o","m"," ","x",";">>
    /\ calls # <<>>
    /\ calls[1].op = "Query"
    /\ calls[1].ok
    /\ out[1].k = "table"

(***************************************************************************)
(* C19: whenever Start or readMultiLine is about to call ReadLine, the     *)
(* prompt is "<database>-> " if lines are buffered, else "<database>*=> "  *)
(* if inTransaction is set, else "<database>=> ", with the name of the     *)
(* database now connected: the new one after a successful switch, the old  *)
(* one after a failed switch.                                              *)
(***************************************************************************)
C19_PromptAtEveryRead ==
    pc = "read" =>
        prompt = IF lines # <<>> THEN database \o <<"-",">"," ">>
                 ELSE IF inTransaction THEN database \o <<"*","=",">"," ">>
                 ELSE database \o <<"=",">"," ">>

\* A first line is buffered after a switch to db2 inside a transaction.
C19_Witness ==
    /\ pc = "read"
    /\ lines # <<>>
    /\ inTransaction
    /\ database = <<"d","b","2">>
    /\ prompt = <<"d","b","2","-",">"," ">>

(***************************************************************************)
(* C20: in a database switch the connection in use is closed only after    *)
(* the new connection has answered the ping; after a successful switch the *)
(* session uses the new connection, the old one is closed and the database *)
(* name is the name asked for.                                             *)
(***************************************************************************)
C20_CloseOnlyAfterPing ==
    [][(pc = "dispatch" /\ IsSwitch(Unit)) =>
          /\ \A i \in 1..Len(calls') :
                (calls'[i].op = "Close" /\ calls'[i].conn = db) =>
                    \E j \in 1..(i - 1) :
                        /\ calls'[j].op = "Ping"
                        /\ calls'[j].ok
                        /\ calls'[j].conn # db
          /\ \A j \in 1..Len(calls') :
                (calls'[j].op = "Ping" /\ calls'[j].ok) =>
                    /\ db' = calls'[j].conn
                    /\ db' # db
                    /\ conns'[db'] = "open"
                    /\ conns'[db] = "closed"
                    /\ database' = Fields(Unit)[2]
      ]_vars

\* \connect db2 has succeeded: handle 2 is in use and handle 1 is closed.
C20_Witness ==
    /\ pc = "read"
    /\ Unit = <<"\\","c","o","n","n","e","c","t"," ","d","b","2">>
    /\ db = 2
    /\ conns[2] = "open"
    /\ conns[1] = "closed"
    /\ database = <<"d","b","2">>
    /\ calls[Len(calls)] = Call("Close", 1, <<>>, TRUE)

(***************************************************************************)
(* C21: in table mode the final width of every column is the greatest of   *)
(* 4, the label's length and the longest formatted value's length, at most *)
(* 50, hence within 4..50; a formatted value of more than 50 characters is *)
(* shown as its first 47 characters and "..." and makes the width 50; a    *)
(* value of at most 50 characters is shown as it is; a null value is shown *)
(* as the empty string.  Lengths are counted in characters.                *)
(***************************************************************************)
Min(a, b) == IF a < b THEN a ELSE b

Max(a, b) == IF a > b THEN a ELSE b

\* The first n characters of s.
FirstChars(s, n) ==
    LET ends == {k \in 0..Len(s) : /\ RuneCount(SubSeq(s, 1, k)) = n
                                   /\ (k < Len(s) => s[k + 1] # ContinuationByte)}
    IN SubSeq(s, 1, CHOOSE k \in ends : TRUE)

TableRendered == rpc = "done" /\ ~expandedMode

\* The formatted value of column i in the r-th row read.
Formatted(r, i) == formatValue(stream[r][i])

RECURSIVE LongestValue(_, _)
LongestValue(i, r) ==
    IF r = 0 THEN 0 ELSE Max(RuneCount(Formatted(r, i)), LongestValue(i, r - 1))

C21_WidthAndTruncation ==
    TableRendered =>
        \A i \in 1..Len(cols) :
            /\ colWidths[i] =
                  Min(MaxWidth, Max(MinWidth, Max(RuneCount(cols[i]),
                                                  LongestValue(i, Len(allRows)))))
            /\ colWidths[i] \in MinWidth..MaxWidth
            /\ \A r \in 1..Len(allRows) :
                  /\ RuneCount(Formatted(r, i)) > MaxWidth =>
                        /\ allRows[r][i] = FirstChars(Formatted(r, i), KeepLen)
                                               \o Ellipsis
                        /\ colWidths[i] = MaxWidth
                  /\ RuneCount(Formatted(r, i)) <= MaxWidth =>
                        allRows[r][i] = Formatted(r, i)
                  /\ stream[r][i] = Null => allRows[r][i] = <<>>

(***************************************************************************)
(* C22: for a result stream of N rows and a row cap M >= 1, table mode and *)
(* expanded mode each render exactly min(N, M) rows and read no row of the *)
(* stream beyond them; the table footer gives the number of rendered rows  *)
(* as "(0 rows)", "(1 row)" or "(<n> rows)"; no step changes the row cap.  *)
(***************************************************************************)
Rendered == Min(Len(stream), maxRows)

RecordHeaders(t) ==
    Cardinality({k \in DOMAIN t : HasPrefix(t[k], <<"-","["," ","R","E","C","O","R","D"," ">>)})

C22_RowCap ==
    [][/\ maxRows' = maxRows
       /\ (rpc' = "done" /\ ~expandedMode') =>
            /\ Len(allRows') = Rendered'
            /\ Len(term') = 2 + Rendered' + 1 + (IF timingEnabled' THEN 1 ELSE 0) + 1
            /\ \A r \in 1..Rendered' : term'[2 + r] = rowLine(allRows'[r], colWidths')
            /\ term'[3 + Rendered'] =
                  IF Rendered' = 0 THEN <<"(","0"," ","r","o","w","s",")">>
                  ELSE IF Rendered' = 1 THEN <<"(","1"," ","r","o","w",")">>
                  ELSE <<"(">> \o Itoa(Rendered') \o <<" ","r","o","w","s",")">>
       /\ (rpc' = "done" /\ expandedMode') =>
            /\ rowNum' = Rendered'
            /\ RecordHeaders(term') = Rendered'
      ]_vars

\* Two rows in the stream, a cap of one: one row rendered, "(1 row)".
C22_Witness ==
    /\ rpc = "done"
    /\ ~expandedMode
    /\ Len(stream) = 2
    /\ maxRows = 1
    /\ Len(allRows) = 1
    /\ term[4] = <<"(","1"," ","r","o","w",")">>

(***************************************************************************)
(* C23: in table-mode output the header line, the separator line and every *)
(* row line have one column layout: at each column boundary the "|" of the *)
(* header, the "+" of the separator and the "|" of every row stand at the  *)
(* same character offset, whatever the labels (longer than 50 characters   *)
(* too) and the values.                                                    *)
(***************************************************************************)
\* The character offsets at which b stands in line.
OffsetsOf(b, line) ==
    {RuneCount(SubSeq(line, 1, k - 1)) : k \in {j \in DOMAIN line : line[j] = b}}

C23_OneColumnLayout ==
    TableRendered =>
        /\ OffsetsOf("|", term[1]) = OffsetsOf("+", term[2])
        /\ \A r \in 1..Len(allRows) :
              OffsetsOf("|", term[2 + r]) = OffsetsOf("|", term[1])

(***************************************************************************)
(* C24: while the prompt has the open-transaction marker after an          *)
(* acknowledged BEGIN, every following statement up to the COMMIT or       *)
(* ROLLBACK is served by the physical connection on which BEGIN was        *)
(* acknowledged, so that it runs in that transaction; this with a pool     *)
(* that may hold more than one open connection and may serve each call     *)
(* with any of them.                                                       *)
(***************************************************************************)
C24_StatementsOnTransactionConnection ==
    [][(/\ pc = "dispatch"
        /\ HasMarker
        /\ tx[db] # {}
        /\ \E i \in 1..Len(calls') : IsStatement(calls'[i])) =>
          served' \in tx[db]
      ]_vars

(***************************************************************************)
(* C25: inTransaction is set only if the active connection has             *)
(* acknowledged a BEGIN not followed by an acknowledged COMMIT or ROLLBACK *)
(* on it; after a successful switch made with the flag set, neither the    *)
(* flag nor the prompt marker shows an open transaction.  Stated for runs  *)
(* in which no backend call has failed.                                    *)
(***************************************************************************)
C25_FlagMeansOpenTransaction ==
    ~everFailed =>
        /\ inTransaction => tx[db] # {}
        /\ (pc = "read" /\ lines = <<>> /\ HasMarker) => tx[db] # {}

(***************************************************************************)
(* C26: the active connection was opened with the settings of the          *)
(* session's configuration: the SSL mode, the connect timeout and the pool *)
(* sizes (max open, max idle, max lifetime) are the configured values,     *)
(* for the connection of Connect and for one opened by a switch alike.     *)
(***************************************************************************)
C26_ActiveConnectionAsConfigured ==
    conns[db] = "open" =>
        /\ settings[db].sslmode = config.SSLMode
        /\ settings[db].connectTimeout = config.ConnectTimeout
        /\ settings[db].maxOpen = config.MaxOpenConns
        /\ settings[db].maxIdle = config.MaxIdleConns
        /\ settings[db].maxLifetime = config.ConnMaxLifetime

====
